---- MODULE Spec2Model ----
(***************************************************************************)
(* Model of Projeto_webserver.c: a home-automation node on a Raspberry Pi  *)
(* Pico W.  One cooperative main loop runs the proximity light, the 5x5    *)
(* LED matrix render, the OLED render and the network poll; the HTTP       *)
(* receive callback runs only inside the poll step.                        *)
(*                                                                         *)
(* Requests are the received bytes themselves (TLA+ strings), and strstr   *)
(* is a real substring search over them.  Distances are kept in units of   *)
(* 1/58 cm (the echo pulse in microseconds), temperatures in hundredths of *)
(* a degree (the two decimals the page prints).                            *)
(***************************************************************************)
EXTENDS Integers, Sequences, FiniteSets, TLC

(* ---------------- bounds of the model ---------------- *)
\* requests delivered to the receive callback within one cyw43_arch_poll
MaxPerPoll == 2
\* completed display renders remembered by the observer variable hist
HistLen == 3
\* payloads the network stack holds for the receive callback (SpecLoop)
MaxPending == 2

(* ---------------- program constants ---------------- *)
NUM_PIXELS == 25
\* 32-bit colour words, as their four bytes (most significant first)
COR_LIGADA == <<255, 255, 255, 0>>      \* 0xFFFFFF00
COR_APAGADA == <<0, 0, 0, 0>>           \* 0x00000000
LIMIAR_CM == 15               \* dist < 15
US_POR_CM == 58               \* pulse_duration / 58.0
NULL == 0

(* ---------------- inputs ---------------- *)
\* echo pulse widths in microseconds: 10 cm, 15 cm (the boundary), 20 cm
PulseDurations == {580, 870, 1160}
\* raw 12-bit ADC samples of the temperature channel
RawSamples == {876, 900}

CRLF == "\r\n"
ReqSala == "GET /mudar_estado_luz_sala HTTP/1.1" \o CRLF \o CRLF
ReqCozinha == "GET /mudar_estado_luz_cozinha HTTP/1.1" \o CRLF \o CRLF
ReqQuarto == "GET /mudar_estado_luz_quarto HTTP/1.1" \o CRLF \o CRLF
ReqBanheiro == "GET /mudar_estado_luz_banheiro HTTP/1.1" \o CRLF \o CRLF
ReqQuintal == "GET /mudar_estado_luz_quintal HTTP/1.1" \o CRLF \o CRLF
ReqDisplay == "GET /mudar_estado_display HTTP/1.1" \o CRLF \o CRLF
ReqOn == "GET /on HTTP/1.1" \o CRLF \o CRLF
ReqOff == "GET /off HTTP/1.1" \o CRLF \o CRLF
ReqRoot == "GET / HTTP/1.1" \o CRLF \o CRLF
\* what a browser sends when the page's form for cozinha is submitted from
\* the page reached through the sala form
ReqForm == "GET /mudar_estado_luz_cozinha? HTTP/1.1" \o CRLF \o
           "Referer: http://pico/mudar_estado_luz_sala?" \o CRLF \o CRLF
ReqSala2 == "GET /mudar_estado_luz_sala2 HTTP/1.1" \o CRLF \o CRLF
ReqOnline == "GET /online HTTP/1.1" \o CRLF \o CRLF
ReqNested == "GET /x/mudar_estado_luz_sala HTTP/1.1" \o CRLF \o CRLF
ReqHeader == "GET / HTTP/1.1" \o CRLF \o
             "X: GET /mudar_estado_luz_sala" \o CRLF \o CRLF
ReqOnHeader == "GET /on HTTP/1.1" \o CRLF \o
               "X: GET /mudar_estado_luz_sala" \o CRLF \o CRLF

Requests ==
  { ReqSala, ReqCozinha, ReqQuarto, ReqBanheiro, ReqQuintal, ReqDisplay,
    ReqOn, ReqOff, ReqRoot, ReqForm, ReqSala2, ReqOnline, ReqNested,
    ReqHeader, ReqOnHeader }

\* markers of the transport variables
NoRequest == "<none>"
NullPayload == "<null pbuf>"
Idle == <<"idle">>
Closed == <<"tcp_close">>
\* value of pending where arrivals are not queued: the callback may then run
\* for any payload at any poll step, which covers every arrival pattern
Unqueued == -1

(* ---------------- state ---------------- *)
VARIABLES
  estado_led_sala, estado_led_cozinha, estado_led_quarto,
  estado_led_banheiro, estado_led_quintal, estado_display,
  tv,          \* display transition tracker
  led_pin,     \* onboard indicator (CYW43_WL_GPIO_LED_PIN)
  led_blue, led_green, led_red,   \* front illumination bank
  pc,          \* position of the main loop
  dist,        \* local dist of luz_frente_controlada, in 1/58 cm
  ldr,         \* level of ldr_pin read by luz_frente_controlada
  echo,        \* level of ECHO_PIN last read by measure_distance_cm
  matrix,      \* colour words pushed to the LED matrix by the last ligar_luz
  ssd,         \* frame buffer of the display driver
  oled,        \* frame shown by the panel (last ssd1306_send_data)
  sent,        \* frames flushed by the current / last ligar_display call
  pending,     \* payloads received and not yet given to the callback
  polled,      \* callbacks run in the current poll step
  last_req,    \* payload given to the last callback of this poll step
  tcp_out,     \* what that callback did on the connection
  raw_value,   \* the ADC sample temp_read took in that callback
  repeat,      \* observer: that payload equals the one handled just before
  falls,       \* observer: true->false display edges since the last render,
               \*   counted while observe
  odd,         \* observer: parity of handled requests per exact toggle path,
               \*   counted while observe
  observe,     \* whether the observer variables falls, odd, hist record
  hist         \* observer: the last HistLen completed display renders

vars == << estado_led_sala, estado_led_cozinha, estado_led_quarto,
           estado_led_banheiro, estado_led_quintal, estado_display,
           tv, led_pin, led_blue, led_green, led_red, pc, dist, ldr,
           echo, matrix, ssd, oled, sent, pending, polled, last_req,
           tcp_out, raw_value, repeat, falls, odd, observe, hist >>

Flags == << estado_led_sala, estado_led_cozinha, estado_led_quarto,
            estado_led_banheiro, estado_led_quintal, estado_display >>

FlagNames == {"sala", "cozinha", "quarto", "banheiro", "quintal", "display"}

\* the globals user_request can write, as one value
DeviceState ==
  [ sala |-> estado_led_sala, cozinha |-> estado_led_cozinha,
    quarto |-> estado_led_quarto, banheiro |-> estado_led_banheiro,
    quintal |-> estado_led_quintal, display |-> estado_display,
    led |-> led_pin ]

NoSample == -1


(* ---------------- library and helper functions ---------------- *)

\* strstr(haystack, needle): position of the first occurrence, or NULL
strstr(haystack, needle) ==
  LET n == Len(needle)
      hits == { i \in 1..(Len(haystack) - n + 1) :
                  SubSeq(haystack, i, i + n - 1) = needle }
  IN  IF hits = {} THEN NULL
      ELSE CHOOSE i \in hits : \A j \in hits : i <= j

\* the eight literals user_request searches for, in the order it tests them
Needles ==
  << "GET /mudar_estado_luz_sala", "GET /mudar_estado_luz_cozinha",
     "GET /mudar_estado_luz_quarto", "GET /mudar_estado_luz_banheiro",
     "GET /mudar_estado_luz_quintal", "GET /mudar_estado_display",
     "GET /on", "GET /off" >>

\* strstr over every request of the model and every literal, computed once
found ==
  [ r \in Requests |-> [ k \in 1..Len(Needles) |-> strstr(r, Needles[k]) ] ]

\* user_request with the two generic commands checked before the toggles
user_request_generic_first(request, st) ==
  IF found[request][7] # NULL THEN [st EXCEPT !.led = 1]
  ELSE IF found[request][8] # NULL THEN [st EXCEPT !.led = 0]
  ELSE IF found[request][1] # NULL THEN [st EXCEPT !.sala = ~st.sala]
  ELSE IF found[request][2] # NULL THEN [st EXCEPT !.cozinha = ~st.cozinha]
  ELSE IF found[request][3] # NULL THEN [st EXCEPT !.quarto = ~st.quarto]
  ELSE IF found[request][4] # NULL THEN [st EXCEPT !.banheiro = ~st.banheiro]
  ELSE IF found[request][5] # NULL THEN [st EXCEPT !.quintal = ~st.quintal]
  ELSE IF found[request][6] # NULL THEN [st EXCEPT !.display = ~st.display]
  ELSE st

\* user_request with the cozinha branch writing the sala flag
user_request_wrong_target(request, st) ==
  IF found[request][1] # NULL THEN [st EXCEPT !.sala = ~st.sala]
  ELSE IF found[request][2] # NULL THEN [st EXCEPT !.sala = ~st.sala]
  ELSE IF found[request][3] # NULL THEN [st EXCEPT !.quarto = ~st.quarto]
  ELSE IF found[request][4] # NULL THEN [st EXCEPT !.banheiro = ~st.banheiro]
  ELSE IF found[request][5] # NULL THEN [st EXCEPT !.quintal = ~st.quintal]
  ELSE IF found[request][6] # NULL THEN [st EXCEPT !.display = ~st.display]
  ELSE IF found[request][7] # NULL THEN [st EXCEPT !.led = 1]
  ELSE IF found[request][8] # NULL THEN [st EXCEPT !.led = 0]
  ELSE st

\* user_request with the quarto branch switching on instead of inverting
user_request_sets(request, st) ==
  IF found[request][1] # NULL THEN [st EXCEPT !.sala = ~st.sala]
  ELSE IF found[request][2] # NULL THEN [st EXCEPT !.cozinha = ~st.cozinha]
  ELSE IF found[request][3] # NULL THEN [st EXCEPT !.quarto = TRUE]
  ELSE IF found[request][4] # NULL THEN [st EXCEPT !.banheiro = ~st.banheiro]
  ELSE IF found[request][5] # NULL THEN [st EXCEPT !.quintal = ~st.quintal]
  ELSE IF found[request][6] # NULL THEN [st EXCEPT !.display = ~st.display]
  ELSE IF found[request][7] # NULL THEN [st EXCEPT !.led = 1]
  ELSE IF found[request][8] # NULL THEN [st EXCEPT !.led = 0]
  ELSE st

\* user_request applied to the globals it can write
user_request(request, st) ==
  IF found[request][1] # NULL THEN [st EXCEPT !.sala = ~st.sala]
  ELSE IF found[request][2] # NULL THEN [st EXCEPT !.cozinha = ~st.cozinha]
  ELSE IF found[request][3] # NULL THEN [st EXCEPT !.quarto = ~st.quarto]
  ELSE IF found[request][4] # NULL THEN [st EXCEPT !.banheiro = ~st.banheiro]
  ELSE IF found[request][5] # NULL THEN [st EXCEPT !.quintal = ~st.quintal]
  ELSE IF found[request][6] # NULL THEN [st EXCEPT !.display = ~st.display]
  ELSE IF found[request][7] # NULL THEN [st EXCEPT !.led = 1]
  ELSE IF found[request][8] # NULL THEN [st EXCEPT !.led = 0]
  ELSE st

\* temp_read in hundredths of a degree, rounded as "%.2f" rounds:
\*   27 - (raw * 3.3/4096 - 0.706) / 0.001721
\* = 27 - (825 raw - 722944) * 3125 / 55072      (exact, reduced fraction)
temp_read(raw) ==
  (5401 * 55072 - 2 * (825 * raw - 722944) * 3125) \div (2 * 55072)

\* html with the document also showing a flag
html_shows_state(temperature) ==
  << "HTTP/1.1 200 OK", "Content-Type: text/html",
     "Temperatura Interna", temperature, estado_led_sala >>

\* the response document: fixed head and body around the one "%.2f" field
html(temperature) ==
  << "HTTP/1.1 200 OK", "Content-Type: text/html",
     "Temperatura Interna", temperature >>

\* valor_led with the rows assigned in the opposite order
valor_led_reversed(i) ==
  LET luz_sala == IF estado_led_sala THEN COR_LIGADA ELSE COR_APAGADA
      luz_cozinha == IF estado_led_cozinha THEN COR_LIGADA ELSE COR_APAGADA
      luz_quarto == IF estado_led_quarto THEN COR_LIGADA ELSE COR_APAGADA
      luz_banheiro == IF estado_led_banheiro THEN COR_LIGADA ELSE COR_APAGADA
      luz_quintal == IF estado_led_quintal THEN COR_LIGADA ELSE COR_APAGADA
      linha == i \div 5
  IN  IF linha = 0 THEN luz_sala
      ELSE IF linha = 1 THEN luz_cozinha
      ELSE IF linha = 2 THEN luz_quarto
      ELSE IF linha = 3 THEN luz_banheiro
      ELSE IF linha = 4 THEN luz_quintal
      ELSE COR_APAGADA

\* colour ligar_luz gives pixel i (0..NUM_PIXELS-1)
valor_led(i) ==
  LET luz_sala == IF estado_led_sala THEN COR_LIGADA ELSE COR_APAGADA
      luz_cozinha == IF estado_led_cozinha THEN COR_LIGADA ELSE COR_APAGADA
      luz_quarto == IF estado_led_quarto THEN COR_LIGADA ELSE COR_APAGADA
      luz_banheiro == IF estado_led_banheiro THEN COR_LIGADA ELSE COR_APAGADA
      luz_quintal == IF estado_led_quintal THEN COR_LIGADA ELSE COR_APAGADA
      linha == i \div 5
  IN  IF linha = 4 THEN luz_sala
      ELSE IF linha = 3 THEN luz_cozinha
      ELSE IF linha = 2 THEN luz_quarto
      ELSE IF linha = 1 THEN luz_banheiro
      ELSE IF linha = 0 THEN luz_quintal
      ELSE COR_APAGADA

\* frames of the display
FrameBlank == "blank"
FrameBorder == "moldura"
FrameOn == "TELEVISAO LIGADA"
FrameOff == "TELEVISAO DESLIGADA"

\* the condition with <= in place of <
frente_acesa_le(d, level) == (d <= LIMIAR_CM * US_POR_CM) /\ (level = 0)

\* condition of the if in luz_frente_controlada (distance in 1/58 cm)
frente_acesa(d, level) == (d < LIMIAR_CM * US_POR_CM) /\ (level = 0)

(* ---------------- request syntax (used by the properties) ---------------- *)

\* first position >= from holding character ch, or Len(s) + 1
Pos(s, ch, from) ==
  LET at == { i \in from..Len(s) : SubSeq(s, i, i) = ch }
  IN  IF at = {} THEN Len(s) + 1
      ELSE CHOOSE i \in at : \A j \in at : i <= j

Trailer(r) == SubSeq(r, Pos(r, "\r", 1), Len(r))
Method(r) == SubSeq(r, 1, Pos(r, " ", 1) - 1)
Target(r) == SubSeq(r, Pos(r, " ", 1) + 1, Pos(r, " ", Pos(r, " ", 1) + 1) - 1)
PathOf(r) == SubSeq(Target(r), 1, Pos(Target(r), "?", 1) - 1)

TogglePath ==
  [ f \in FlagNames |->
      IF f = "display" THEN "/mudar_estado_display"
      ELSE "/mudar_estado_luz_" \o f ]

RecognizedPaths == { TogglePath[f] : f \in FlagNames } \cup {"/on", "/off"}

\* per request: the path of a GET request line, "" for any other method
path_of ==
  [ r \in Requests |-> IF Method(r) = "GET" THEN PathOf(r) ELSE "" ]

\* per request: does a searched literal occur after the request line
trailer_has_command ==
  [ r \in Requests |->
      \E k \in 1..Len(Needles) : strstr(Trailer(r), Needles[k]) # NULL ]


(* ---------------- initial state ---------------- *)

\* the state when main enters its loop: the globals' initialisers, the pins
\* as gpio_led_bitdog and cyw43_arch_gpio_put(LED_PIN, 0) leave them, the
\* display cleared
InitProgram ==
  /\ estado_led_sala = FALSE
  /\ estado_led_cozinha = FALSE
  /\ estado_led_quarto = FALSE
  /\ estado_led_banheiro = FALSE
  /\ estado_led_quintal = FALSE
  /\ estado_display = FALSE
  /\ tv = 0
  /\ led_pin = 0
  /\ led_blue = 0 /\ led_green = 0 /\ led_red = 0
  /\ pc = "sensor"
  /\ dist = NoSample /\ ldr = NoSample /\ echo = NoSample
  /\ matrix = << >>
  /\ ssd = FrameBlank /\ oled = FrameBlank /\ sent = << >>
  /\ polled = 0 /\ last_req = NoRequest /\ tcp_out = Idle
  /\ raw_value = NoSample
  /\ repeat = FALSE /\ falls = 0
  /\ odd = [f \in FlagNames |-> FALSE]
  /\ hist = << >>

\* every request of the model may arrive; the observers do not record
Init == InitProgram /\ observe = FALSE /\ pending = Unqueued

\* the observed scenario: falls, odd and hist record
InitObserved == InitProgram /\ observe = TRUE /\ pending = Unqueued

\* the loop scenario: payloads are queued by the network stack as they arrive
InitLoop == InitProgram /\ observe = FALSE /\ pending = 0

(* ---------------- frames of UNCHANGED ---------------- *)
flag_vars == << estado_led_sala, estado_led_cozinha, estado_led_quarto,
                estado_led_banheiro, estado_led_quintal, estado_display >>
front_vars == << led_blue, led_green, led_red >>
display_vars == << tv, ssd, oled, sent, observe, hist >>
net_vars ==
  << pending, polled, last_req, tcp_out, raw_value, repeat, odd >>

(* ---------------- luz_frente_controlada / measure_distance_cm ---------- *)

\* send_trigger_pulse: 10 us pulse on TRIG_PIN, then wait for the echo
SendTrigger ==
  /\ pc = "sensor"
  /\ pc' = "echo_high"
  /\ UNCHANGED << flag_vars, led_pin, front_vars, dist, ldr, echo, matrix,
                  display_vars, net_vars, falls >>

\* EchoWaitHigh with a timeout: the wait may give up while the line is low
EchoWaitHigh_timeout ==
  /\ pc = "echo_high"
  /\ \E level \in {0, 1} :
       /\ echo' = level
       /\ pc' \in (IF level = 0 THEN {"echo_high", "echo_low"}
                   ELSE {"echo_low"})
  /\ UNCHANGED << flag_vars, led_pin, front_vars, dist, ldr, matrix,
                  display_vars, net_vars, falls >>

\* while (gpio_get(ECHO_PIN) == 0);
EchoWaitHigh ==
  /\ pc = "echo_high"
  /\ \E level \in {0, 1} :
       /\ echo' = level
       /\ pc' = IF level = 0 THEN "echo_high" ELSE "echo_low"
  /\ UNCHANGED << flag_vars, led_pin, front_vars, dist, ldr, matrix,
                  display_vars, net_vars, falls >>

\* while (gpio_get(ECHO_PIN) == 1); then distance_cm = pulse_duration / 58.0
EchoWaitLow ==
  /\ pc = "echo_low"
  /\ \E level \in {0, 1} :
       /\ echo' = level
       /\ IF level = 1
          THEN pc' = "echo_low" /\ dist' = dist
          ELSE \E pulse_duration \in PulseDurations :
                 dist' = pulse_duration /\ pc' = "decide"
  /\ UNCHANGED << flag_vars, led_pin, front_vars, ldr, matrix,
                  display_vars, net_vars, falls >>

\* luz_frente_controlada whose else branch forgets the green pin
LuzFrenteDecide_green_kept ==
  /\ pc = "decide"
  /\ \E level \in {0, 1} :
       /\ ldr' = level
       /\ led_blue' = (IF frente_acesa(dist, level) THEN 1 ELSE 0)
       /\ led_green' = (IF frente_acesa(dist, level) THEN 1 ELSE led_green)
       /\ led_red' = (IF frente_acesa(dist, level) THEN 1 ELSE 0)
  /\ pc' = "frente_ret"
  /\ UNCHANGED << flag_vars, led_pin, dist, echo, matrix, display_vars,
                  net_vars, falls >>

\* if ((dist < 15) && (!gpio_get(ldr_pin))) all three on, else all three off
LuzFrenteDecide ==
  /\ pc = "decide"
  /\ \E level \in {0, 1} :
       /\ ldr' = level
       /\ led_blue' = (IF frente_acesa(dist, level) THEN 1 ELSE 0)
       /\ led_green' = (IF frente_acesa(dist, level) THEN 1 ELSE 0)
       /\ led_red' = (IF frente_acesa(dist, level) THEN 1 ELSE 0)
  /\ pc' = "frente_ret"
  /\ UNCHANGED << flag_vars, led_pin, dist, echo, matrix, display_vars,
                  net_vars, falls >>

\* return of luz_frente_controlada: its local and the value read are gone
LuzFrenteReturn ==
  /\ pc = "frente_ret"
  /\ dist' = NoSample /\ ldr' = NoSample /\ echo' = NoSample
  /\ pc' = "luz"
  /\ UNCHANGED << flag_vars, led_pin, front_vars, matrix, display_vars,
                  net_vars, falls >>

(* ---------------- ligar_luz ---------------- *)

\* ligar_luz with an assignment where a room flag is read
LigarLuz_clears ==
  /\ pc = "luz"
  /\ matrix' = [ k \in 1..NUM_PIXELS |-> valor_led(k - 1) ]
  /\ estado_led_sala' = FALSE
  /\ pc' = "display"
  /\ UNCHANGED << estado_led_cozinha, estado_led_quarto, estado_led_banheiro,
                  estado_led_quintal, estado_display, led_pin, front_vars,
                  dist, ldr, echo, display_vars, net_vars, falls >>

\* for (i = 0; i < NUM_PIXELS; i++) pio_sm_put_blocking(pio, sm, valor_led)
LigarLuz ==
  /\ pc = "luz"
  /\ matrix' = [ k \in 1..NUM_PIXELS |-> valor_led(k - 1) ]
  /\ pc' = "display"
  /\ UNCHANGED << flag_vars, led_pin, front_vars, dist, ldr, echo, display_vars,
                  net_vars, falls >>

(* ---------------- ligar_display ---------------- *)

\* a completed render, as the observer variable hist records it
Rendered(flag, tv0, frames) ==
  [ flag |-> flag, tv0 |-> tv0, sent |-> frames ]

Remember(h, e) ==
  IF ~observe THEN h
  ELSE IF Len(h) < HistLen THEN Append(h, e) ELSE Append(Tail(h), e)

\* ligar_display drawing the ON frame on the rising edge only
LigarDisplay_on_entry_only ==
  /\ pc = "display"
  /\ IF estado_display
     THEN /\ ssd' = FrameOn /\ oled' = FrameOn
          /\ sent' = (IF tv = 0 THEN << FrameOn >> ELSE << >>)
          /\ tv' = 1
          /\ pc' = "poll"
          /\ hist' = Remember(hist, Rendered(TRUE, tv, sent'))
     ELSE IF tv = 1
     THEN /\ ssd' = FrameOff /\ oled' = FrameOff
          /\ sent' = << FrameOff >>
          /\ tv' = tv
          /\ pc' = "dwell"
          /\ hist' = hist
     ELSE /\ ssd' = FrameBorder /\ oled' = oled
          /\ sent' = << >>
          /\ tv' = tv
          /\ pc' = "poll"
          /\ hist' = Remember(hist, Rendered(FALSE, tv, << >>))
  /\ falls' = IF pc' = "poll" THEN 0 ELSE falls
  /\ UNCHANGED << flag_vars, led_pin, front_vars, dist, ldr, echo, matrix,
                  net_vars, observe >>

\* ligar_display whose on branch forgets tv = 1
LigarDisplay_no_tracker ==
  /\ pc = "display"
  /\ IF estado_display
     THEN /\ ssd' = FrameOn /\ oled' = FrameOn
          /\ sent' = << FrameOn >>
          /\ tv' = tv
          /\ pc' = "poll"
          /\ hist' = Remember(hist, Rendered(TRUE, tv, << FrameOn >>))
     ELSE IF tv = 1
     THEN /\ ssd' = FrameOff /\ oled' = FrameOff
          /\ sent' = << FrameOff >>
          /\ tv' = tv
          /\ pc' = "dwell"
          /\ hist' = hist
     ELSE /\ ssd' = FrameBorder /\ oled' = oled
          /\ sent' = << >>
          /\ tv' = tv
          /\ pc' = "poll"
          /\ hist' = Remember(hist, Rendered(FALSE, tv, << >>))
  /\ falls' = IF pc' = "poll" THEN 0 ELSE falls
  /\ UNCHANGED << flag_vars, led_pin, front_vars, dist, ldr, echo, matrix,
                  net_vars, observe >>

\* ligar_display up to its return, or up to sleep_ms(2000) on the off branch
LigarDisplay ==
  /\ pc = "display"
  /\ IF estado_display
     THEN /\ ssd' = FrameOn /\ oled' = FrameOn
          /\ sent' = << FrameOn >>
          /\ tv' = 1
          /\ pc' = "poll"
          /\ hist' = Remember(hist, Rendered(TRUE, tv, << FrameOn >>))
     ELSE IF tv = 1
     THEN /\ ssd' = FrameOff /\ oled' = FrameOff
          /\ sent' = << FrameOff >>
          /\ tv' = tv
          /\ pc' = "dwell"
          /\ hist' = hist
     ELSE /\ ssd' = FrameBorder /\ oled' = oled
          /\ sent' = << >>
          /\ tv' = tv
          /\ pc' = "poll"
          /\ hist' = Remember(hist, Rendered(FALSE, tv, << >>))
  /\ falls' = IF pc' = "poll" THEN 0 ELSE falls
  /\ UNCHANGED << flag_vars, led_pin, front_vars, dist, ldr, echo, matrix,
                  net_vars, observe >>

\* the off branch without its final tv = 0
DisplayDwellEnd_keeps_tv ==
  /\ pc = "dwell"
  /\ ssd' = FrameBlank /\ oled' = FrameBlank
  /\ sent' = Append(sent, FrameBlank)
  /\ tv' = tv
  /\ pc' = "poll"
  /\ hist' = Remember(hist, Rendered(estado_display, tv,
                                     Append(sent, FrameBlank)))
  /\ falls' = 0
  /\ UNCHANGED << flag_vars, led_pin, front_vars, dist, ldr, echo, matrix,
                  net_vars, observe >>

\* the rest of the off branch: after the dwell, blank the panel and tv = 0
DisplayDwellEnd ==
  /\ pc = "dwell"
  /\ ssd' = FrameBlank /\ oled' = FrameBlank
  /\ sent' = Append(sent, FrameBlank)
  /\ tv' = 0
  /\ pc' = "poll"
  /\ hist' = Remember(hist, Rendered(estado_display, tv,
                                     Append(sent, FrameBlank)))
  /\ falls' = 0
  /\ UNCHANGED << flag_vars, led_pin, front_vars, dist, ldr, echo, matrix,
                  net_vars, observe >>

(* ---------------- cyw43_arch_poll / tcp_server_recv ---------------- *)

\* callback_context for a network driver that runs the callbacks from an
\* interrupt: they then also run while ligar_display sleeps
callback_context_background == pc \in {"poll", "dwell"}

\* where the network stack runs the callbacks registered with tcp_accept and
\* tcp_recv: inside cyw43_arch_poll, called from the main loop, and nowhere
\* else (the polling variant of the network driver)
callback_context == pc = "poll"

\* tcp_server_recv with a payload p: user_request, temp_read, the response
TcpServerRecv(p, raw) ==
  /\ callback_context
  /\ polled < MaxPerPoll
  /\ pending # 0
  /\ pending' = IF pending = Unqueued THEN pending ELSE pending - 1
  /\ LET st == user_request(p, DeviceState)
     IN  /\ estado_led_sala' = st.sala
         /\ estado_led_cozinha' = st.cozinha
         /\ estado_led_quarto' = st.quarto
         /\ estado_led_banheiro' = st.banheiro
         /\ estado_led_quintal' = st.quintal
         /\ estado_display' = st.display
         /\ led_pin' = st.led
         /\ falls' = IF observe /\ estado_display /\ ~st.display
                     THEN falls + 1 ELSE falls
  /\ raw_value' = raw
  /\ tcp_out' = html(temp_read(raw))
  /\ last_req' = p
  /\ polled' = polled + 1
  /\ repeat' = (last_req = p)
  /\ odd' = [ f \in FlagNames |->
                IF observe /\ path_of[p] = TogglePath[f]
                THEN ~odd[f] ELSE odd[f] ]
  /\ UNCHANGED << front_vars, pc, dist, ldr, echo, matrix, display_vars >>

\* tcp_server_recv with p == NULL: tcp_close, no response
TcpServerRecvNull ==
  /\ callback_context
  /\ polled < MaxPerPoll
  /\ pending # 0
  /\ pending' = IF pending = Unqueued THEN pending ELSE pending - 1
  /\ tcp_out' = Closed /\ raw_value' = NoSample
  /\ last_req' = NullPayload
  /\ polled' = polled + 1
  /\ repeat' = FALSE
  /\ UNCHANGED << flag_vars, led_pin, front_vars, pc, dist, ldr, echo, matrix,
                  display_vars, falls, odd >>

\* cyw43_arch_poll returning whether or not payloads are pending
PollDone_ignores_pending ==
  /\ pc = "poll"
  /\ pending' = pending
  /\ pc' = "sensor"
  /\ polled' = 0 /\ last_req' = NoRequest /\ tcp_out' = Idle
  /\ raw_value' = NoSample
  /\ repeat' = FALSE
  /\ UNCHANGED << flag_vars, led_pin, front_vars, dist, ldr, echo, matrix,
                  display_vars, falls, odd >>

\* cyw43_arch_poll returns, having run the callback for what was pending;
\* sleep_ms(100); next iteration of while (true)
PollDone ==
  /\ pc = "poll"
  /\ pending \in {Unqueued, 0} \/ polled = MaxPerPoll
  /\ pending' = pending
  /\ pc' = "sensor"
  /\ polled' = 0 /\ last_req' = NoRequest /\ tcp_out' = Idle
  /\ raw_value' = NoSample
  /\ repeat' = FALSE
  /\ UNCHANGED << flag_vars, led_pin, front_vars, dist, ldr, echo, matrix,
                  display_vars, falls, odd >>

\* a payload reaches the network stack; it stays there until the poll step
Arrive ==
  /\ pending \in 0..(MaxPending - 1)
  /\ pending' = pending + 1
  /\ UNCHANGED << flag_vars, led_pin, front_vars, pc, dist, ldr, echo, matrix,
                  display_vars, polled, last_req, tcp_out, raw_value, repeat,
                  odd,
                  falls >>

Recv == \E p \in Requests : \E raw \in RawSamples : TcpServerRecv(p, raw)

\* the requests of the observed scenario: the display toggle, two room
\* toggles, a path that begins with a toggle path, a path without effect
ObservedRequests == { ReqDisplay, ReqSala, ReqCozinha, ReqSala2, ReqRoot }

RecvObserved ==
  \E p \in ObservedRequests : \E raw \in RawSamples : TcpServerRecv(p, raw)

Next ==
  \/ SendTrigger
  \/ EchoWaitHigh
  \/ EchoWaitLow
  \/ LuzFrenteDecide
  \/ LuzFrenteReturn
  \/ LigarLuz
  \/ LigarDisplay
  \/ DisplayDwellEnd
  \/ Recv
  \/ TcpServerRecvNull
  \/ PollDone

Spec == Init /\ [][Next]_vars

NextObserved ==
  \/ SendTrigger
  \/ EchoWaitHigh
  \/ EchoWaitLow
  \/ LuzFrenteDecide
  \/ LuzFrenteReturn
  \/ LigarLuz
  \/ LigarDisplay
  \/ DisplayDwellEnd
  \/ RecvObserved
  \/ TcpServerRecvNull
  \/ PollDone

SpecObserved == InitObserved /\ [][NextObserved]_vars

\* one iteration of while (true) and the callbacks of its poll step
LoopStep ==
  \/ SendTrigger
  \/ LuzFrenteDecide
  \/ LuzFrenteReturn
  \/ LigarLuz
  \/ LigarDisplay
  \/ DisplayDwellEnd
  \/ RecvObserved
  \/ TcpServerRecvNull
  \/ PollDone

\* the echo line rising, and falling, while measure_distance_cm waits
EchoRise == EchoWaitHigh /\ pc' = "echo_low"
EchoFall == EchoWaitLow /\ pc' = "decide"

NextLoop ==
  \/ LoopStep
  \/ EchoWaitHigh
  \/ EchoWaitLow
  \/ Arrive

\* the processor always runs the loop; the echo line is left free, so it may
\* stay low, or stay high, for ever
SpecStall == InitLoop /\ [][NextLoop]_vars /\ WF_vars(LoopStep)

\* the processor always runs the loop, and every distance measurement
\* completes: the echo line rises and then falls
SpecLoop ==
  /\ InitLoop /\ [][NextLoop]_vars
  /\ WF_vars(LoopStep) /\ WF_vars(EchoRise) /\ WF_vars(EchoFall)

TypeOK ==
  /\ Flags \in [1..6 -> BOOLEAN]
  /\ tv \in {0, 1} /\ led_pin \in {0, 1}
  /\ polled \in 0..MaxPerPoll
  /\ echo \in {NoSample, 0, 1}
  /\ raw_value \in {NoSample} \cup RawSamples
  /\ pending \in {Unqueued} \cup 0..MaxPending


(* ======================= properties ======================= *)

\* a step in which tcp_server_recv handled a payload of Requests
RecvStep == pc = "poll" /\ polled' = polled + 1 /\ last_req' \in Requests

\* the six flags of a DeviceState value
FlagsOf(st) == [ f \in FlagNames |-> st[f] ]

\* r is the toggle request of flag f: a GET whose path is exactly f's toggle
\* path and that carries no searched literal after its request line
IsToggleRequest(r, f) ==
  r \in Requests /\ path_of[r] = TogglePath[f] /\ ~trailer_has_command[r]

C2_Involution ==
  [][ (RecvStep /\ \E f \in FlagNames : path_of[last_req'] = TogglePath[f]) =>
        FlagsOf(user_request(last_req', DeviceState')) = FlagsOf(DeviceState)
    ]_vars

\* reached: the quarto request handled twice in a row within one poll step,
\* with the quarto flag back off and display left on by an earlier request
C2_Witness ==
  /\ pc = "poll" /\ polled = 2 /\ repeat /\ last_req = ReqQuarto
  /\ ~estado_led_quarto /\ estado_display

\* C3 (as claimed): a request whose path is not one of the eight recognized
\* paths changes neither a flag nor the indicator, and gets the status page.
C3_UnrecognizedNoOp ==
  [][ (RecvStep /\ path_of[last_req'] \notin RecognizedPaths) =>
        /\ DeviceState' = DeviceState
        /\ \E raw \in RawSamples : tcp_out' = html(temp_read(raw)) ]_vars

\* the action of the searched literal the request starts with, if any
start_action ==
  [ r \in Requests |->
      IF \E k \in 1..Len(Needles) : found[r][k] = 1
      THEN CHOOSE k \in 1..Len(Needles) : found[r][k] = 1
      ELSE 0 ]

RouteByStart(k, st) ==
  IF k = 1 THEN [st EXCEPT !.sala = ~st.sala]
  ELSE IF k = 2 THEN [st EXCEPT !.cozinha = ~st.cozinha]
  ELSE IF k = 3 THEN [st EXCEPT !.quarto = ~st.quarto]
  ELSE IF k = 4 THEN [st EXCEPT !.banheiro = ~st.banheiro]
  ELSE IF k = 5 THEN [st EXCEPT !.quintal = ~st.quintal]
  ELSE IF k = 6 THEN [st EXCEPT !.display = ~st.display]
  ELSE IF k = 7 THEN [st EXCEPT !.led = 1]
  ELSE IF k = 8 THEN [st EXCEPT !.led = 0]
  ELSE st

\* C4 (as claimed): the effect of a request is decided by the command at its
\* start alone; a command string occurring only later in the bytes causes
\* no flag toggle and no indicator change.
C4_StartDecides ==
  [][ RecvStep =>
        DeviceState' = RouteByStart(start_action[last_req'], DeviceState)
    ]_vars

\* frames of one kind among the frames of a render
CountFrames(frames, kind) ==
  Cardinality({ i \in 1..Len(frames) : frames[i] = kind })

\* C5: renders observing the display flag false (from blank), true, false
\* send nothing, then one ON frame, then one OFF frame followed by the blank
\* frame; after a render that observed false the panel is blank and the
\* tracker reset; a render observing false right after one that observed
\* false sends nothing.
C5_DisplayTransition ==
  /\ \A i \in 1..Len(hist) :
       /\ (i >= 3 /\ ~hist[i-2].flag /\ hist[i-2].tv0 = 0
                  /\ hist[i-1].flag /\ ~hist[i].flag) =>
            /\ hist[i-2].sent = << >>
            /\ hist[i-1].sent = << FrameOn >>
            /\ hist[i].sent = << FrameOff, FrameBlank >>
       /\ (i >= 2 /\ ~hist[i-1].flag /\ ~hist[i].flag) =>
            hist[i].sent = << >>
  /\ (Len(hist) >= 1 /\ ~hist[Len(hist)].flag) =>
       (tv = 0 /\ oled = FrameBlank)

\* reached: three consecutive renders observed false (blank), true, false
C5_Witness ==
  /\ Len(hist) = 3
  /\ hist[1] = Rendered(FALSE, 0, << >>)
  /\ hist[2].flag
  /\ ~hist[3].flag /\ hist[3].sent = << FrameOff, FrameBlank >>
  /\ oled = FrameBlank

\* C6 (as claimed): every falling edge of the display flag gets its own OFF
\* frame: the render that follows sends as many OFF frames as there were
\* falling edges since the previous render.
C6_EveryFallShown ==
  [][ pc = "display" => CountFrames(sent', FrameOff) = falls ]_vars

\* C6 (amended): a render sends exactly one OFF frame when the flag was true
\* at the previous render and is false at this one, and none otherwise; such
\* an observed edge always stems from a handled falling edge.
C6_ObservedFallShown ==
  /\ \A i \in 2..Len(hist) :
       CountFrames(hist[i].sent, FrameOff) =
         (IF hist[i-1].flag /\ ~hist[i].flag THEN 1 ELSE 0)
  /\ (pc = "dwell") => (falls >= 1 /\ sent = << FrameOff >>)
  /\ (pc # "poll" /\ Len(hist) >= 1 /\ hist[Len(hist)].flag
        /\ ~estado_display) => falls >= 1

\* reached: the OFF frame is on the panel after a handled falling edge
C6_Witness ==
  /\ pc = "dwell" /\ falls = 1 /\ oled = FrameOff
  /\ Len(hist) >= 1 /\ hist[Len(hist)].flag

\* the room flag shown by row linha of the matrix
RowFlag(linha) ==
  IF linha = 0 THEN estado_led_quintal
  ELSE IF linha = 1 THEN estado_led_banheiro
  ELSE IF linha = 2 THEN estado_led_quarto
  ELSE IF linha = 3 THEN estado_led_cozinha
  ELSE estado_led_sala

RoomsOn ==
  { k \in 1..5 : Flags[k] }

\* C7: right after ligar_luz the matrix holds 25 words, word i being the on
\* colour iff the flag of row i/5 is set and black otherwise; with one room
\* flag set exactly 5 words are the on colour.
C7_MatrixProjection ==
  pc = "display" =>
    /\ Len(matrix) = 25
    /\ \A i \in 0..24 :
         matrix[i + 1] = (IF RowFlag(i \div 5) THEN <<255, 255, 255, 0>>
                          ELSE <<0, 0, 0, 0>>)
    /\ (Cardinality(RoomsOn) = 1) =>
         Cardinality({ k \in 1..25 : matrix[k] = <<255, 255, 255, 0>> }) = 5

\* reached: only quarto (row 2) is on, the display flag is on as well
C7_Witness ==
  /\ pc = "display"
  /\ Flags = << FALSE, FALSE, TRUE, FALSE, FALSE, TRUE >>
  /\ matrix[11] = COR_LIGADA /\ matrix[10] = COR_APAGADA

\* C8: when luz_frente_controlada has decided, the three front LEDs are on
\* iff the distance of this call is below 15 cm and the ldr pin read low.
C8_ProximityDecision ==
  pc = "frente_ret" =>
    LET on == (dist < 15 * 58) /\ (ldr = 0)
    IN  /\ led_blue = (IF on THEN 1 ELSE 0)
        /\ led_green = (IF on THEN 1 ELSE 0)
        /\ led_red = (IF on THEN 1 ELSE 0)

\* reached: exactly 15 cm in the dark, and the bank is off
C8_Witness ==
  /\ pc = "frente_ret" /\ dist = 870 /\ ldr = 0 /\ led_blue = 0

\* C9 (as claimed): each flag is on iff an odd number of requests for its
\* own toggle path have been handled.
C9_Parity ==
  \A f \in FlagNames : DeviceState[f] = odd[f]

\* C10: the six flags start false, change only in a step of the receive
\* callback, and then are what user_request left.
C10_OnlyRouter ==
  /\ Flags = << FALSE, FALSE, FALSE, FALSE, FALSE, FALSE >>
  /\ [][ /\ (flag_vars' # flag_vars) => RecvStep
         /\ RecvStep =>
              FlagsOf(DeviceState') =
                FlagsOf(user_request(last_req', DeviceState)) ]_vars

\* reached: the off branch of ligar_display is dwelling with room flags on
C10_Witness ==
  /\ pc = "dwell" /\ estado_led_sala /\ estado_led_quintal
  /\ led_blue = 1

\* the requests of the model that are the toggle request of some flag
ToggleRequests ==
  { r \in Requests : \E f \in FlagNames : IsToggleRequest(r, f) }

\* every DeviceState value that handling toggle requests one after another
\* leads to from a value of S
RECURSIVE TogglesFrom(_)
TogglesFrom(S) ==
  LET T == S \cup { user_request(r, st) : r \in ToggleRequests, st \in S }
  IN  IF T = S THEN S ELSE TogglesFrom(T)

\* C11: from the state with the six flags off, every one of the 64
\* combinations of the flags is what some sequence of toggle requests leaves.
C11_AllCombinations ==
  (\A k \in 1..6 : ~Flags[k]) =>
    { FlagsOf(st) : st \in TogglesFrom({DeviceState}) } = [FlagNames -> BOOLEAN]

\* reached: the six flags are all on, the combination farthest from the
\* initial one, and the matrix and the display show it
C11_Witness ==
  /\ Flags = << TRUE, TRUE, TRUE, TRUE, TRUE, TRUE >>
  /\ pc = "poll" /\ tv = 1
  /\ \A i \in 1..NUM_PIXELS : matrix[i] = COR_LIGADA

\* C12: request handling never overlaps a render or sensor step: outside the
\* poll step (during luz_frente_controlada, ligar_luz, ligar_display and its
\* 2 second dwell) no flag, no indicator write and no callback happens, and a
\* step that changes a flag starts and ends inside the poll step.
C12_NoOverlap ==
  [][ /\ pc # "poll" =>
           UNCHANGED << flag_vars, led_pin, polled, last_req, tcp_out >>
      /\ (flag_vars' # flag_vars \/ polled' > polled) =>
           (pc = "poll" /\ pc' = "poll") ]_vars

\* reached: ligar_display is in its 2 second dwell after the display flag was
\* cleared, with the cozinha flag set by a request and already on the matrix
C12_Witness ==
  /\ pc = "dwell" /\ ~estado_display /\ oled = FrameOff
  /\ estado_led_cozinha /\ matrix[16] = COR_LIGADA

\* what a stalled main loop leaves alone: the flags, the outputs and the
\* network side
stalled_vars ==
  << flag_vars, led_pin, front_vars, matrix, display_vars, polled, last_req,
     tcp_out >>

\* C13: measure_distance_cm leaves its first wait only on reading the echo
\* line high and its second wait only on reading it low; while it waits no
\* request is handled and neither the matrix nor the display is refreshed;
\* so if the line never rises, or rises and never falls, the call never
\* returns (there is no timeout).
C13_EchoWaitStalls ==
  /\ [][ /\ (pc = "echo_high" /\ pc' # "echo_high") =>
              (echo' = 1 /\ pc' = "echo_low")
         /\ (pc = "echo_low" /\ pc' # "echo_low") =>
              (echo' = 0 /\ pc' = "decide")
         /\ pc \in {"echo_high", "echo_low"} => UNCHANGED stalled_vars ]_vars
  /\ [](pc = "echo_high" /\ [](echo # 1) => [](pc = "echo_high"))
  /\ [](pc = "echo_low" /\ [](echo # 0) => [](pc = "echo_low"))

\* reached: the first wait has read the line low while payloads are pending
\* and the sala flag, set in the last poll step, is not yet on the matrix
C13_Witness ==
  /\ pc = "echo_high" /\ echo = 0
  /\ pending = MaxPending
  /\ estado_led_sala /\ matrix[21] = COR_APAGADA

\* C14: tv is written by ligar_display only: a step that changes tv is a step
\* of ligar_display, each completed call leaves tv = 1 if the display flag
\* was true in that call and tv = 0 otherwise, and the poll step, where
\* requests are handled, leaves tv as it was.
C14_TrackerOwner ==
  [][ /\ tv' # tv => pc \in {"display", "dwell"}
      /\ (pc \in {"display", "dwell"} /\ pc' = "poll") =>
           tv' = (IF estado_display THEN 1 ELSE 0)
      /\ pc = "poll" => tv' = tv ]_vars

\* reached: a display request has just cleared the flag, and tv still says
\* that the panel shows the ON frame
C14_Witness ==
  /\ pc = "poll" /\ polled = 1 /\ last_req = ReqDisplay
  /\ ~estado_display /\ tv = 1 /\ oled = FrameOn

\* C15 (as claimed): the indicator starts off; handling a request for /on
\* leaves it on and a request for /off leaves it off, neither changing a
\* flag; handling any other request leaves the indicator as it was, so the
\* indicator is what the most recent /on or /off request set.
C15_IndicatorLatest ==
  /\ led_pin = 0
  /\ [][ RecvStep =>
           /\ led_pin' = (IF path_of[last_req'] = "/on" THEN 1
                          ELSE IF path_of[last_req'] = "/off" THEN 0
                          ELSE led_pin)
           /\ path_of[last_req'] \in {"/on", "/off"} =>
                flag_vars' = flag_vars ]_vars

\* the HTTP 200 status page for an ADC sample: nothing in it but the
\* temperature of that sample varies
StatusPage(raw) ==
  << "HTTP/1.1 200 OK", "Content-Type: text/html",
     "Temperatura Interna", temp_read(raw) >>

\* a step in which tcp_server_recv was called with a null payload
NullStep ==
  pc = "poll" /\ polled' = polled + 1 /\ last_req' = NullPayload

\* C16: handling a payload sends one response, the status page of the
\* temperature sample taken in that handling, whatever the flags and the
\* request are; a null payload gets no response, closes the connection and
\* changes no flag.
C16_ResponseBySample ==
  [][ /\ RecvStep =>
           (raw_value' \in RawSamples /\ tcp_out' = StatusPage(raw_value'))
      /\ NullStep =>
           (tcp_out' = Closed /\ flag_vars' = flag_vars
            /\ led_pin' = led_pin) ]_vars

\* reached: the second request of a poll step, for the quintal, was answered
\* with the page of sample 876 while the display flag was on
C16_Witness ==
  /\ pc = "poll" /\ polled = 2 /\ last_req = ReqQuintal
  /\ estado_led_quintal /\ estado_display
  /\ raw_value = 876 /\ tcp_out = StatusPage(876)

\* per request: the earliest command string, in the order of Needles, that
\* occurs in the request; 0 if none occurs
first_match ==
  [ r \in Requests |->
      LET M == { k \in 1..Len(Needles) : found[r][k] # NULL }
      IN  IF M = {} THEN 0
          ELSE CHOOSE k \in M : \A j \in M : k <= j ]

\* C17: a handled request performs the action of the earliest command string
\* it contains, in the order sala, cozinha, quarto, banheiro, quintal,
\* display, on, off, and no other: at most one flag or the indicator
\* changes, and /on and /off act only if no toggle command string occurs.
C17_FirstMatchOnly ==
  [][ RecvStep =>
        /\ DeviceState' = RouteByStart(first_match[last_req'], DeviceState)
        /\ Cardinality({ f \in DOMAIN DeviceState :
                           DeviceState'[f] # DeviceState[f] }) <= 1 ]_vars

\* reached: a request holding both "GET /on" and the sala command string has
\* toggled sala and left the indicator off
C17_Witness ==
  /\ pc = "poll" /\ polled = 1 /\ last_req = ReqOnHeader
  /\ estado_led_sala /\ led_pin = 0

\* C18: a call of ligar_display that finds the display flag true sends the
\* ON frame, whether or not the panel already shows it; a call that finds
\* the flag false and tv = 0 sends nothing and leaves the panel as it is.
C18_RenderEveryCycle ==
  [][ pc = "display" =>
        /\ estado_display => (sent' = << FrameOn >> /\ oled' = FrameOn)
        /\ (~estado_display /\ tv = 0) => (sent' = << >> /\ oled' = oled)
    ]_vars

\* reached: a render with the flag false and the panel blank sent nothing,
\* the next one sent the ON frame on the rising edge, and the one after sent
\* it again with tv already 1
C18_Witness ==
  /\ Len(hist) = 3
  /\ hist[1] = Rendered(FALSE, 0, << >>)
  /\ hist[2] = Rendered(TRUE, 0, << FrameOn >>)
  /\ hist[3] = Rendered(TRUE, 1, << FrameOn >>)

\* C20: the blue, green and red pins of the front bank are all off after
\* initialization; between two calls of luz_frente_controlada they carry one
\* common value; only the deciding step of luz_frente_controlada writes
\* them, all three on or all three off; request handling, the renders and
\* the poll step leave them alone.
C20_FrontBankTogether ==
  /\ (led_blue = 0 /\ led_green = 0 /\ led_red = 0)
  /\ [](pc \in {"sensor", "luz", "display", "dwell", "poll"} =>
          (led_blue = led_green /\ led_green = led_red))
  /\ [][ /\ front_vars' # front_vars => pc = "decide"
         /\ pc = "decide" =>
              (led_blue' \in {0, 1} /\ led_green' = led_blue'
               /\ led_red' = led_blue') ]_vars

\* reached: a sensor step has switched the bank on, and the second request
\* of the poll step, for /on, changed the indicator and not the bank
C20_Witness ==
  /\ pc = "poll" /\ polled = 2 /\ last_req = ReqOn
  /\ led_blue = 1 /\ led_green = 1 /\ led_red = 1 /\ led_pin = 1

\* the order of the main loop, as pairs of consecutive positions
LoopOrder ==
  { << "sensor", "echo_high" >>, << "echo_high", "echo_low" >>,
    << "echo_low", "decide" >>, << "decide", "frente_ret" >>,
    << "frente_ret", "luz" >>, << "luz", "display" >>,
    << "display", "dwell" >>, << "display", "poll" >>,
    << "dwell", "poll" >>, << "poll", "sensor" >> }

\* the matrix shows the five room flags, the panel shows the display flag
OutputsShowFlags ==
  /\ Len(matrix) = NUM_PIXELS
  /\ \A i \in 0..(NUM_PIXELS - 1) :
       matrix[i + 1] = (IF RowFlag(i \div 5) THEN COR_LIGADA ELSE COR_APAGADA)
  /\ oled = (IF estado_display THEN FrameOn ELSE FrameBlank)

\* C19: when every distance measurement completes, the loop goes round for
\* ever in the order sensor, matrix, display, poll; while a payload is
\* pending the callback eventually runs once more (polled counts its runs
\* in a poll step), so the oldest payload, and in turn every payload, is
\* eventually handled; and the flags a poll step leaves are
\* on the matrix and the panel when the next poll step starts, no flag
\* having changed in between.
C19_LoopProgress ==
  /\ [][ /\ pc' # pc => << pc, pc' >> \in LoopOrder
         /\ pc # "poll" => flag_vars' = flag_vars ]_vars
  /\ \A stage \in {"sensor", "luz", "display", "poll"} : []<>(pc = stage)
  /\ \A k \in 0..MaxPerPoll :
       (pending > 0 /\ polled = k) ~>
         (pc = "poll" /\ polled = (IF k = MaxPerPoll THEN 1 ELSE k + 1))
  /\ [](pc = "poll" /\ polled = 0 => OutputsShowFlags)
  /\ (pc = "sensor") ~> (pc = "poll" /\ polled = 0 /\ OutputsShowFlags)

\* reached: the sala and display flags, set by handled requests, are on the
\* matrix and the panel at the start of a poll step with a payload pending
C19_Witness ==
  /\ pc = "poll" /\ polled = 0 /\ pending = 1
  /\ estado_led_sala /\ estado_display
  /\ matrix[21] = COR_LIGADA /\ oled = FrameOn

====
